---- MODULE Spec2Model ----
(***************************************************************************)
(* emunes: the 6502 core (CPU6502), the iNES loader (load_nes_rom) and the *)
(* handlers of the Tk frontend that drive them (EmuNESApp), as found in    *)
(* src/emuneshdrv0a.py.                                                    *)
(*                                                                         *)
(* The bus is the Python list `memory` of 65536 cells.  It is held here as  *)
(* 256 pages of 256 bytes, the page being the high byte of the address:    *)
(* Python's memory[a] is memory[a \div 256 + 1][a % 256 + 1] (Rd).  An     *)
(* index past the end of a list raises IndexError, which is modelled as an *)
(* outcome of the operation (the writes made before the raise stay         *)
(* committed, as in Python).                                               *)
(***************************************************************************)
EXTENDS Integers, Sequences, FiniteSets, TLC

\* ------------------------------------------------------------ constants
MemSize    == 65536    \* [0x00]*65536
PrgBank    == 16384    \* 16 * 1024, the unit of header byte 4
PrgStart   == 16       \* prg_start
PrgBase    == 32768    \* 0x8000
MirrorBase == 49152    \* 0xC000
ResetLo    == 65532    \* 0xFFFC
ResetHi    == 65533    \* 0xFFFD
ResetPage  == 128      \* 0x80, the high byte of the fallback vector
InitSP     == 253      \* 0xFD
OpLDA      == 169      \* 0xA9
OpLDX      == 162      \* 0xA2
OpINX      == 232      \* 0xE8
OpBRK      == 0        \* 0x00
RunCount   == 20       \* range(20)

\* ------------------------------------------------------------ bounds
MaxLoads   == 2        \* open_rom invocations that pick a file
MaxCpuOps  == 2        \* Reset / Step / Run 20 button presses
MaxRegWindows == 6     \* register windows opened by show_registers

Min(a, b) == IF a < b THEN a ELSE b

\* ------------------------------------------------------------ files
\* The storage layer: what open(path, "rb").read() returns for each path the
\* file dialog can hand back.  Bytes are 0..255; a Python index k is k+1 here.
Magic == <<78, 69, 83, 26>>                      \* b"NES\x1A"

Fill(len, b) == [i \in 1..len |-> b] \o <<>>

\* s with bytes stored at Python indices off .. off+Len(bytes)-1.
Patch(s, off, bytes) ==
    SubSeq(s, 1, off) \o bytes \o SubSeq(s, off + Len(bytes) + 1, Len(s))

Header(m0, n, c) == <<m0, 69, 83, 26, n, c, 0, 0, 0, 0, 0, 0, 0, 0, 0, 0>>

\* A9 42 | 00 | A2 80 | A2 FF | E8 | E8 | FF | 02 | A9 00 | A9 80
Program == <<169, 66, 0, 162, 128, 162, 255, 232, 232, 255, 2, 169, 0, 169, 128>>

\* 22 x E8, then 00
Sled == Fill(22, 232) \o <<0>>

Files ==
       \* "XES\x1A", otherwise the image of one.nes
       "bad.nes"    :> (Header(88, 1, 0) \o Patch(Fill(PrgBank, 0), 0, Program))
       \* PRG count 0, no payload
    @@ "zero.nes"   :> Header(78, 0, 0)
       \* one bank, no reset vector of its own
    @@ "one.nes"    :> (Header(78, 1, 0) \o Patch(Fill(PrgBank, 0), 0, Program))
       \* one bank, vector 0xFFFE; E8 at 0xFFFE, A9 at 0xFFFF
    @@ "vec.nes"    :> (Header(78, 1, 1) \o
                        Patch(Patch(Fill(PrgBank, 234), 0, <<232, 0>>),
                              PrgBank - 4, <<254, 255, 232, 169>>))
       \* one bank, vector 0xFFFE; A2 at 0xFFFE, its operand 07 at 0xFFFF
    @@ "vecx.nes"   :> (Header(78, 1, 0) \o
                        Patch(Fill(PrgBank, 234), PrgBank - 4, <<254, 255, 162, 7>>))
       \* two banks, vector 0xC000; the second bank starts with the sled
    @@ "two.nes"    :> (Header(78, 2, 0) \o
                        Patch(Patch(Patch(Fill(2 * PrgBank, 3), 0, <<162, 255, 232, 0>>),
                                    PrgBank, Sled),
                              2 * PrgBank - 4, <<0, 192, 0, 0>>))
       \* three full banks
    @@ "three.nes"  :> (Header(78, 3, 0) \o Patch(Fill(3 * PrgBank, 1), 0, Program))
       \* one bank declared, 3 bytes present
    @@ "trunc1.nes" :> (Header(78, 1, 0) \o <<169, 66, 0>>)
       \* two banks declared, one bank and 2 bytes present
    @@ "trunc2.nes" :> (Header(78, 2, 0) \o Patch(Fill(PrgBank + 2, 5), 0, Program))

Paths == DOMAIN Files

\* Python's data[lo:hi] for 0 <= lo: clipped to the sequence, never raising.
Slice(data, lo, hi) ==
    IF lo >= Min(hi, Len(data)) THEN <<>> ELSE SubSeq(data, lo + 1, Min(hi, Len(data)))

\* ------------------------------------------------------------ CPU6502
InitFlags == [C |-> 0, Z |-> 0, I |-> 0, D |-> 0, B |-> 0, U |-> 1, V |-> 0, N |-> 0]

InitCpu == [A |-> 0, X |-> 0, Y |-> 0, SP |-> InitSP, PC |-> 0, flags |-> InitFlags]

\* v & 0x80 as a Python truth value
Bit7(v) == (v \div 128) % 2 = 1

\* a set_flag that stores the condition itself: v & 0x80 is 128 when bit 7 is set
set_flag_raw(flags, f, c) ==
    [flags EXCEPT ![f] = IF c THEN (IF f = "N" THEN 128 ELSE 1) ELSE 0]

set_flag(flags, f, c) == [flags EXCEPT ![f] = IF c THEN 1 ELSE 0]

\* an update that sets Z and leaves N alone
update_z_only(flags, v) == set_flag(flags, "Z", v = 0)

update_zn(flags, v) == set_flag(set_flag(flags, "Z", v = 0), "N", Bit7(v))

\* memory[a]
Rd(mem, a) == mem[(a \div 256) + 1][(a % 256) + 1]

\* memory[a] = v
Wr(mem, a, v) == [mem EXCEPT ![(a \div 256) + 1][(a % 256) + 1] = v]

\* memory[base+i] = bytes[i] for i in range(k), with base + k <= 65536
Store(mem, base, bytes, k) ==
    [p \in 1..256 |->
        LET lo == (p - 1) * 256
        IN  IF lo + 256 <= base \/ lo >= base + k THEN mem[p]
            ELSE IF lo >= base /\ lo + 256 <= base + k
            THEN SubSeq(bytes, lo - base + 1, lo - base + 256)
            ELSE [j \in 1..256 |->
                     IF lo + j - 1 >= base /\ lo + j - 1 < base + k
                     THEN bytes[lo + j - base] ELSE mem[p][j]] \o <<>>] \o <<>>

\* (hi<<8)|lo of the reset vector
cpu_reset_swapped(c, mem) == [c EXCEPT !.PC = Rd(mem, ResetLo) * 256 + Rd(mem, ResetHi)]

\* a reset that also walks SP down by three, as the 6502's own reset does
cpu_reset_sp3(c, mem) ==
    [c EXCEPT !.PC = Rd(mem, ResetHi) * 256 + Rd(mem, ResetLo),
              !.SP = (c.SP + 253) % 256]

\* reset(): PC from the two vector bytes; nothing else is touched.
cpu_reset(c, mem) == [c EXCEPT !.PC = Rd(mem, ResetHi) * 256 + Rd(mem, ResetLo)]

\* An index the 65536-cell list accepts (PC is never negative).
InBus(a) == a >= 0 /\ a < MemSize

\* What one call of CPU6502.step() did.
\*   before   the registers when the call began
\*   cpu      the registers when the call ended (by return or by raise)
\*   ret      "True" | "False" | "IndexError" (a list index past the end)
\*   reads    the bus indices the call used, in order (one past the end included)
\*   opcode   the byte fetched, -1 when the fetch itself raised
\*   unknown  TRUE when the call printed "Unknown opcode"
StepOut(c0, c, r, rd, op, u) ==
    [before |-> c0, cpu |-> c, ret |-> r, reads |-> rd, opcode |-> op, unknown |-> u]

\* self.PC += 1
IncPC(c) == [c EXCEPT !.PC = c.PC + 1]

\* LDA #: c0 at the call, c1 after the opcode fetch.
step_lda(c0, c1, mem) ==
    IF ~InBus(c1.PC)
    THEN StepOut(c0, c1, "IndexError", <<c0.PC, c1.PC>>, OpLDA, FALSE)
    ELSE LET v == Rd(mem, c1.PC)
         IN  StepOut(c0, [IncPC(c1) EXCEPT !.A = v, !.flags = update_zn(c1.flags, v)],
                     "True", <<c0.PC, c1.PC>>, OpLDA, FALSE)

\* LDX #
step_ldx(c0, c1, mem) ==
    IF ~InBus(c1.PC)
    THEN StepOut(c0, c1, "IndexError", <<c0.PC, c1.PC>>, OpLDX, FALSE)
    ELSE LET v == Rd(mem, c1.PC)
         IN  StepOut(c0, [IncPC(c1) EXCEPT !.X = v, !.flags = update_zn(c1.flags, v)],
                     "True", <<c0.PC, c1.PC>>, OpLDX, FALSE)

\* an INX whose flags come from X + 1 before the & 0xFF
step_inx_premask(c0, c1) ==
    StepOut(c0, [c1 EXCEPT !.X = (c1.X + 1) % 256,
                           !.flags = update_zn(c1.flags, c1.X + 1)],
            "True", <<c0.PC>>, OpINX, FALSE)

\* an INX without the & 0xFF
step_inx_unmasked(c0, c1) ==
    StepOut(c0, [c1 EXCEPT !.X = c1.X + 1, !.flags = update_zn(c1.flags, c1.X + 1)],
            "True", <<c0.PC>>, OpINX, FALSE)

\* INX
step_inx(c0, c1) ==
    LET x == (c1.X + 1) % 256
    IN  StepOut(c0, [c1 EXCEPT !.X = x, !.flags = update_zn(c1.flags, x)],
                "True", <<c0.PC>>, OpINX, FALSE)

\* a BRK that sets the break flag, as the 6502's own BRK does
step_brk_sets_b(c0, c1) ==
    StepOut(c0, [c1 EXCEPT !.flags = set_flag(c1.flags, "B", TRUE)], "False",
            <<c0.PC>>, OpBRK, FALSE)

\* BRK
step_brk(c0, c1) == StepOut(c0, c1, "False", <<c0.PC>>, OpBRK, FALSE)

\* an unknown opcode that falls into the INX arm before it is reported
step_unknown_falls(c0, c1, opcode) ==
    StepOut(c0, [c1 EXCEPT !.X = (c1.X + 1) % 256], "False", <<c0.PC>>, opcode, TRUE)

\* else: print "Unknown opcode", return False
step_unknown(c0, c1, opcode) == StepOut(c0, c1, "False", <<c0.PC>>, opcode, TRUE)

\* One call of CPU6502.step() on registers c and bus mem.
cpu_step(c, mem) ==
    IF ~InBus(c.PC)
    THEN StepOut(c, c, "IndexError", <<c.PC>>, -1, FALSE)
    ELSE
      LET opcode == Rd(mem, c.PC)
          c1     == IncPC(c)
      IN  IF opcode = OpLDA THEN step_lda(c, c1, mem)
          ELSE IF opcode = OpLDX THEN step_ldx(c, c1, mem)
          ELSE IF opcode = OpINX THEN step_inx(c, c1)
          ELSE IF opcode = OpBRK THEN step_brk(c, c1)
          ELSE step_unknown(c, c1, opcode)

\* ------------------------------------------------------------ load_nes_rom
\* a check of bytes 1..3 only
BadMagicTail(data) == Slice(data, 1, 4) # Tail(Magic)

\* data[0:4] != b"NES\x1A"
BadMagic(data) == Slice(data, 0, 4) # Magic

\* prg_size, chr_size (data has at least 6 bytes)
PrgSize(data) == data[5] * 16 * 1024
ChrSize(data) == data[6] * 8 * 1024

\* prg_data = data[prg_start:prg_start+prg_size]
PrgData(data) == Slice(data, PrgStart, PrgStart + PrgSize(data))

\* a copy loop run on a bus that was cleared first
MapPrgOnCleared(mem, prg_data) ==
    LET k == Min(Len(prg_data), MemSize - PrgBase)
    IN  [memory |-> Store([p \in 1..256 |-> Fill(256, 0)] \o <<>>, PrgBase, prg_data, k),
         written |-> k,
         raised  |-> Len(prg_data) > k]

\* The copy loop: memory[0x8000+i] = b for each byte of prg_data, in order.
\* The first index past the end of the list raises; earlier writes stay.
MapPrg(mem, prg_data) ==
    LET k == Min(Len(prg_data), MemSize - PrgBase)
    IN  [memory |-> Store(mem, PrgBase, prg_data, k),
         written |-> k,
         raised  |-> Len(prg_data) > k]

\* a mirror taken for every image of at least one bank
ShouldMirrorAtLeast(prg_size) == prg_size >= PrgBank

\* if prg_size == 16384
ShouldMirror(prg_size) == prg_size = PrgBank

\* The mirror loop: memory[0xC000+i] = prg_data[i] for i in range(16384).
\* prg_data[i] raises once i reaches len(prg_data); earlier writes stay.
MirrorPrg(mem, prg_data) ==
    LET k == Min(Len(prg_data), PrgBank)
    IN  [memory |-> Store(mem, MirrorBase, prg_data, k),
         written |-> k,
         raised  |-> k < PrgBank]

\* the test turned round: both vector bytes set
NeedsVectorNonZero(mem) == Rd(mem, ResetLo) # 0 /\ Rd(mem, ResetHi) # 0

\* if memory[0xFFFC] == 0 and memory[0xFFFD] == 0
NeedsVector(mem) == Rd(mem, ResetLo) = 0 /\ Rd(mem, ResetHi) = 0

\* the two bytes stored the other way round
PatchVectorSwapped(mem) == Wr(Wr(mem, ResetLo, ResetPage), ResetHi, 0)

\* memory[0xFFFC] = 0x00; memory[0xFFFD] = 0x80
PatchVector(mem) == Wr(Wr(mem, ResetLo, 0), ResetHi, ResetPage)

\* What one call of load_nes_rom did.
\*   memory   the bus when the call ended (by return or by raise)
\*   raised   "None" | "ValueError" | "IndexError"
\*   ret      len(prg_data) when the call returned, -1 when it raised
\*   prg, mirror  how many cells the copy loop and the mirror loop wrote
\*   patched  whether the fallback vector was written
\*   oob      the bus index past the end that the copy loop used, -1 if none
LoadOut(m, e, r, p, mi, pa, o) ==
    [memory |-> m, raised |-> e, ret |-> r, prg |-> p, mirror |-> mi,
     patched |-> pa, oob |-> o]

\* One call of load_nes_rom on file content data and bus mem.
load_nes_rom(data, mem) ==
    IF BadMagic(data) THEN LoadOut(mem, "ValueError", -1, 0, 0, FALSE, -1)
    ELSE IF Len(data) < 6                               \* data[4], data[5]
    THEN LoadOut(mem, "IndexError", -1, 0, 0, FALSE, -1)
    ELSE
      LET prg_data == PrgData(data)
          m1       == MapPrg(mem, prg_data)
      IN  IF m1.raised
          THEN LoadOut(m1.memory, "IndexError", -1, m1.written, 0, FALSE,
                       PrgBase + m1.written)
          ELSE
            LET m2 == IF ShouldMirror(PrgSize(data)) THEN MirrorPrg(m1.memory, prg_data)
                      ELSE [memory |-> m1.memory, written |-> 0, raised |-> FALSE]
            IN  IF m2.raised
                THEN LoadOut(m2.memory, "IndexError", -1, m1.written, m2.written,
                             FALSE, -1)
                ELSE IF NeedsVector(m2.memory)
                THEN LoadOut(PatchVector(m2.memory), "None", Len(prg_data),
                             m1.written, m2.written, TRUE, -1)
                ELSE LoadOut(m2.memory, "None", Len(prg_data),
                             m1.written, m2.written, FALSE, -1)

\* ------------------------------------------------------------ NESHardware
\* src/emunesv0.0.0x.py: the hardware object of the BIOS frontend.
RamSize     == 2048     \* [0x00] * 2048
VramSize    == 2048     \* [0x00] * 2048
BiosVecLo   == 8188     \* 0x1FFC
BiosVecHi   == 8189     \* 0x1FFD
BiosVecPage == 192      \* 0xC0
IoPorts     == 255      \* 0xFF

PpuRegisters ==
    [PPUCTRL |-> 0, PPUMASK |-> 0, PPUSTATUS |-> 0, OAMADDR |-> 0, PPUSCROLL |-> 0,
     PPUADDR |-> 0, PPUDATA |-> 0]

ApuRegisters ==
    [SQ1_VOL |-> 0, SQ1_SWEEP |-> 0, SQ1_LO |-> 0, SQ1_HI |-> 0, SQ2_VOL |-> 0,
     SQ2_SWEEP |-> 0, TRI_LINEAR |-> 0, TRI_LO |-> 0, NOISE_VOL |-> 0, DMC_FREQ |-> 0,
     APU_STATUS |-> 0]

\* NESHardware.__init__
NESHardware ==
    [ppu_initialized |-> FALSE, apu_initialized |-> FALSE, cpu_initialized |-> FALSE,
     memory_initialized |-> FALSE, controllers_initialized |-> FALSE,
     bios_complete |-> FALSE,
     ppu_registers |-> PpuRegisters, apu_registers |-> ApuRegisters,
     ram |-> Fill(RamSize, 0), vram |-> Fill(VramSize, 0)]

\* What one initialisation call did: the hardware when it ended, "None" or the
\* exception it raised, and the list index past the end that it used (-1: none).
HwOut(h, e, o) == [nes |-> h, raised |-> e, oob |-> o]

\* l[i] = v on a Python list: an index past the end raises, the list stays.
ListSet(l, i, v) ==
    IF i < Len(l) THEN [ok |-> TRUE, list |-> [l EXCEPT ![i + 1] = v]]
    ELSE [ok |-> FALSE, list |-> l]

initialize_ppu(h) ==
    [h EXCEPT !.ppu_registers.PPUCTRL = 128, !.ppu_registers.PPUMASK = 6,
              !.ppu_registers.PPUSTATUS = 160, !.ppu_initialized = TRUE]

initialize_apu(h) ==
    [h EXCEPT !.apu_registers.APU_STATUS = 15, !.apu_registers.SQ1_VOL = 48,
              !.apu_registers.SQ2_VOL = 48, !.apu_initialized = TRUE]

\* self.ram[0x1FFC] = 0x00; self.ram[0x1FFD] = 0xC0; self.cpu_initialized = True
initialize_cpu(h) ==
    LET w1 == ListSet(h.ram, BiosVecLo, 0)
    IN  IF ~w1.ok THEN HwOut(h, "IndexError", BiosVecLo)
        ELSE LET w2 == ListSet(w1.list, BiosVecHi, BiosVecPage)
             IN  IF ~w2.ok THEN HwOut([h EXCEPT !.ram = w1.list], "IndexError", BiosVecHi)
                 ELSE HwOut([h EXCEPT !.ram = w2.list, !.cpu_initialized = TRUE],
                            "None", -1)

\* both lists cleared over their own length, then ram[0] = ram[1] = 0xFF
initialize_memory(h) ==
    [h EXCEPT !.ram  = [Fill(Len(h.ram), 0) EXCEPT ![1] = IoPorts, ![2] = IoPorts],
              !.vram = Fill(Len(h.vram), 0),
              !.memory_initialized = TRUE]

initialize_controllers(h) == [h EXCEPT !.controllers_initialized = TRUE]

\* What one call of NESHardware.run_bios did: the hardware when it ended, "None"
\* or the exception that left it, the list index past the end, and the
\* initialisations that returned, in order.
BiosOut(h, e, o, st) == [nes |-> h, raised |-> e, oob |-> o, stages |-> st]

\* NESHardware.run_bios: memory, CPU, PPU, APU, controllers, bios_complete.
run_bios(h) ==
    LET m == initialize_memory(h)
        c == initialize_cpu(m)
    IN  IF c.raised # "None" THEN BiosOut(c.nes, c.raised, c.oob, <<"memory">>)
        ELSE LET k == initialize_controllers(initialize_apu(initialize_ppu(c.nes)))
             IN  BiosOut([k EXCEPT !.bios_complete = TRUE], "None", -1,
                         <<"memory", "cpu", "ppu", "apu", "controllers">>)

get_hardware_status(h) ==
    [PPU         |-> IF h.ppu_initialized THEN "Ready" ELSE "Offline",
     APU         |-> IF h.apu_initialized THEN "Ready" ELSE "Offline",
     CPU         |-> IF h.cpu_initialized THEN "Ready" ELSE "Offline",
     Memory      |-> IF h.memory_initialized THEN "Ready" ELSE "Offline",
     Controllers |-> IF h.controllers_initialized THEN "Ready" ELSE "Offline",
     BIOS        |-> IF h.bios_complete THEN "Complete" ELSE "Not Run"]

\* ------------------------------------------------------------ EmuNESGUI (BIOS)
\* src/emunesv0.0.0x.py: the frontend object.  bios_output is the text widget
\* (its blocks of text, and whether it is left editable), hw_labels the six
\* status labels, screen the status line of the canvas.
BiosGui ==
    [nes |-> NESHardware,
     rom_loaded |-> FALSE, rom_path |-> "None", is_playing |-> FALSE, bios_run |-> FALSE,
     bios_output |-> <<"ready">>, output_state |-> "disabled",
     hw_labels |-> [PPU |-> "Offline", APU |-> "Offline", CPU |-> "Offline",
                    Memory |-> "Offline", Controllers |-> "Offline", BIOS |-> "Offline"],
     hw_status |-> "OFFLINE", screen |-> "OFFLINE", status_text |-> "Ready"]

\* What one handler did: the frontend when it ended, "None" or the exception
\* that left it, the message box it showed ("" for none), and whether the file
\* dialog was opened.
GuiOut(g, e, box, asked) == [gui |-> g, raised |-> e, box |-> box, asked |-> asked]

update_hardware_status(g) ==
    [g EXCEPT !.hw_labels = get_hardware_status(g.nes),
              !.hw_status = IF g.nes.bios_complete THEN "READY" ELSE "OFFLINE"]

draw_bios_screen(g) == [g EXCEPT !.screen = IF g.bios_run THEN "READY" ELSE "OFFLINE"]

\* EmuNESGUI.run_bios: the output is made editable and emptied, then the
\* hardware runs its BIOS; what follows is skipped when that call raises.
gui_run_bios(g) ==
    LET g1 == [g EXCEPT !.output_state = "normal", !.bios_output = <<>>]
        r  == run_bios(g1.nes)
        g2 == [g1 EXCEPT !.nes = r.nes]
    IN  IF r.raised # "None" THEN GuiOut(g2, r.raised, "", FALSE)
        ELSE GuiOut([draw_bios_screen(
                        [update_hardware_status(
                            [g2 EXCEPT !.bios_output = <<"bios_log">>,
                                       !.output_state = "disabled"])
                         EXCEPT !.bios_run = TRUE])
                     EXCEPT !.status_text = "BIOS Initialization Complete"],
                    "None", "", FALSE)

\* EmuNESGUI.hardware_test
gui_hardware_test(g) ==
    IF ~g.nes.bios_complete THEN GuiOut(g, "None", "warning", FALSE)
    ELSE GuiOut([g EXCEPT !.bios_output = Append(g.bios_output, "test_log"),
                          !.output_state = "disabled"],
                "None", "info", FALSE)

\* EmuNESGUI.reset_hardware
gui_reset_hardware(g) ==
    GuiOut([draw_bios_screen(
               update_hardware_status([g EXCEPT !.nes = NESHardware, !.bios_run = FALSE]))
            EXCEPT !.bios_output = <<"reset">>, !.output_state = "disabled",
                   !.status_text = "Hardware Reset"],
           "None", "", FALSE)

\* EmuNESGUI.open_rom, the dialog answering path ("" when cancelled)
gui_open_rom(g, path) ==
    IF ~g.nes.bios_complete THEN GuiOut(g, "None", "warning", FALSE)
    ELSE IF path # ""
    THEN GuiOut([g EXCEPT !.rom_path = path, !.rom_loaded = TRUE,
                          !.status_text = "ROM loaded"],
                "None", "", TRUE)
    ELSE GuiOut(g, "None", "", TRUE)

\* ------------------------------------------------------------ EmuNESGUI (client)
\* src/client.py: the frontend object.  display is the text on the canvas,
\* rom_info the text widget (and whether it is left editable), rom_status,
\* status_text and fps_label the labels of the status bar.
ClientGui ==
    [rom_loaded |-> FALSE, rom_path |-> "None", is_playing |-> FALSE,
     display |-> "No ROM Loaded", rom_info |-> "No ROM loaded",
     rom_info_state |-> "disabled", rom_status |-> "No ROM",
     status_text |-> "Ready", fps_label |-> "--"]

\* The paths the file dialog of client.py can hand back ("" when cancelled).
ClientPaths == {"", "a.nes", "b.nes"}

\* open_rom, the dialog answering path; os.path.getsize(path) raises OSError
\* when the file is no longer there (there = FALSE): the assignments made
\* before it stay.
client_open(g, path, there) ==
    IF path = "" THEN GuiOut(g, "None", "", TRUE)
    ELSE LET g1 == [g EXCEPT !.rom_path = path, !.rom_loaded = TRUE,
                             !.display = "ROM Loaded", !.rom_info_state = "normal",
                             !.rom_info = ""]
         IN  IF ~there THEN GuiOut(g1, "OSError", "", TRUE)
             ELSE GuiOut([g1 EXCEPT !.rom_info = path, !.rom_info_state = "disabled",
                                    !.rom_status = path,
                                    !.status_text = "ROM loaded successfully"],
                         "None", "", TRUE)

\* a close_rom that forgets to stop the emulation
client_close_keeps_playing(g) ==
    IF g.rom_loaded
    THEN [g EXCEPT !.rom_loaded = FALSE, !.rom_path = "None",
                   !.display = "No ROM Loaded", !.rom_info = "No ROM loaded",
                   !.rom_info_state = "disabled", !.rom_status = "No ROM",
                   !.status_text = "ROM closed"]
    ELSE g

\* close_rom
client_close(g) ==
    IF g.rom_loaded
    THEN [g EXCEPT !.rom_loaded = FALSE, !.is_playing = FALSE, !.rom_path = "None",
                   !.display = "No ROM Loaded", !.rom_info = "No ROM loaded",
                   !.rom_info_state = "disabled", !.rom_status = "No ROM",
                   !.status_text = "ROM closed"]
    ELSE g

\* play_emu
client_play(g) ==
    IF g.rom_loaded /\ ~g.is_playing
    THEN [g EXCEPT !.is_playing = TRUE, !.display = "Game Playing",
                   !.status_text = "Emulation running", !.fps_label = "60"]
    ELSE g

\* pause_emu
client_pause(g) ==
    IF g.is_playing
    THEN [g EXCEPT !.is_playing = FALSE, !.display = "Game Paused",
                   !.status_text = "Emulation paused", !.fps_label = "--"]
    ELSE g

\* reset_emu
client_reset(g) ==
    IF g.rom_loaded
    THEN [g EXCEPT !.is_playing = FALSE, !.display = "Game Reset",
                   !.status_text = "Emulation reset", !.fps_label = "--"]
    ELSE g

\* quick_save(1), quick_load(1), take_screenshot: the status line only.
client_note(g, text) == IF g.rom_loaded THEN [g EXCEPT !.status_text = text] ELSE g

\* ------------------------------------------------------------ EmuNESApp
VARIABLES
    memory,    \* self.memory: the bus
    cpu,       \* self.cpu: A, X, Y, SP, PC, flags
    event,     \* the last handler that ran, with what it observed
    loads,     \* files opened so far
    cpuOps     \* button presses so far

vars == <<memory, cpu, event, loads, cpuOps>>

\* The other two frontends of the repository, each a program of its own.
VARIABLES
    bios,         \* emunesv0.0.0x.py: the EmuNESGUI object, its NESHardware in bios.nes
    biosEvent,    \* the last handler of it that ran, with what it observed
    regWindows,   \* the register windows that show_registers has opened
    client,       \* client.py: the EmuNESGUI object
    clientEvent   \* the last handler of it that ran

biosVars == <<bios, biosEvent, regWindows>>
clientVars == <<client, clientEvent>>
allVars == <<vars, biosVars, clientVars>>

\* biosEvent and clientEvent before any handler has run
NoBiosEvent ==
    [op |-> "none", path |-> "", raised |-> "None", box |-> "", asked |-> FALSE,
     stages |-> <<>>, oob |-> -1]
NoClientEvent == [op |-> "none", path |-> "", raised |-> "None"]

\* event.load of a handler that loads nothing
NoLoad == [raised |-> "None", ret |-> -1, prg |-> 0, mirror |-> 0,
           patched |-> FALSE, oob |-> -1]

Event(op, path, load, steps) == [op |-> op, path |-> path, load |-> load, steps |-> steps]

Init ==
    /\ memory = [p \in 1..256 |-> Fill(256, 0)] \o <<>>
    /\ cpu = InitCpu
    /\ event = Event("none", "", NoLoad, <<>>)
    /\ loads = 0
    /\ cpuOps = 0
    /\ bios = BiosGui /\ biosEvent = NoBiosEvent /\ regWindows = 0
    /\ client = ClientGui /\ clientEvent = NoClientEvent

\* File > Open ROM with the dialog returning path (a cancelled dialog returns
\* "" and the handler returns at once): load, then reset on success; any
\* exception is caught and logged, the reset skipped.
open_rom(path) ==
    /\ path # ""
    /\ loads < MaxLoads
    /\ loads' = loads + 1
    /\ LET r == load_nes_rom(Files[path], memory)
       IN  /\ memory' = r.memory
           /\ cpu' = IF r.raised = "None" THEN cpu_reset(cpu, r.memory) ELSE cpu
           /\ event' = Event("open_rom", path,
                             [raised |-> r.raised, ret |-> r.ret, prg |-> r.prg,
                              mirror |-> r.mirror, patched |-> r.patched, oob |-> r.oob],
                             <<>>)
    /\ UNCHANGED <<cpuOps, biosVars, clientVars>>

\* The Reset button.
reset ==
    /\ cpuOps < MaxCpuOps
    /\ cpuOps' = cpuOps + 1
    /\ cpu' = cpu_reset(cpu, memory)
    /\ event' = Event("reset", "", NoLoad, <<>>)
    /\ UNCHANGED <<memory, loads, biosVars, clientVars>>

\* The Step button: one cpu.step().
step ==
    /\ cpuOps < MaxCpuOps
    /\ cpuOps' = cpuOps + 1
    /\ LET s == cpu_step(cpu, memory)
       IN  /\ cpu' = s.cpu
           /\ event' = Event("step", "", NoLoad, <<s>>)
    /\ UNCHANGED <<memory, loads, biosVars, clientVars>>

\* a loop without the break: a False does not end it, only a raise does
RECURSIVE RunStepsNoBreak(_, _, _, _)
RunStepsNoBreak(c, mem, n, done) ==
    IF n = 0 THEN done
    ELSE LET s == cpu_step(c, mem)
         IN  IF s.ret # "IndexError"
             THEN RunStepsNoBreak(s.cpu, mem, n - 1, Append(done, s))
             ELSE Append(done, s)

\* The loop of run20: up to n more calls of cpu.step(), stopping after the first
\* that does not return True (a False breaks the loop, a raise leaves the handler).
RECURSIVE RunSteps(_, _, _, _)
RunSteps(c, mem, n, done) ==
    IF n = 0 THEN done
    ELSE LET s == cpu_step(c, mem)
         IN  IF s.ret = "True" THEN RunSteps(s.cpu, mem, n - 1, Append(done, s))
             ELSE Append(done, s)

\* The Run 20 instr button.
run20 ==
    /\ cpuOps < MaxCpuOps
    /\ cpuOps' = cpuOps + 1
    /\ LET ss == RunSteps(cpu, memory, RunCount, <<>>)
       IN  /\ cpu' = ss[Len(ss)].cpu
           /\ event' = Event("run20", "", NoLoad, ss)
    /\ UNCHANGED <<memory, loads, biosVars, clientVars>>

Next ==
    \/ \E path \in Paths : open_rom(path)
    \/ reset
    \/ step
    \/ run20

Spec == Init /\ [][Next]_allVars

\* ------------------------------------------------------------ BIOS frontend
\* The paths the file dialog of emunesv0.0.0x.py can hand back.
BiosPaths == {"", "game.nes"}

BiosEvent(op, path, out, stages, oob) ==
    [op |-> op, path |-> path, raised |-> out.raised, box |-> out.box,
     asked |-> out.asked, stages |-> stages, oob |-> oob]

\* Run BIOS Initialization (button and menus)
bios_run_bios ==
    /\ LET r == gui_run_bios(bios)
           h == run_bios(bios.nes)
       IN  /\ bios' = r.gui
           /\ biosEvent' = BiosEvent("run_bios", "", r, h.stages, h.oob)
    /\ UNCHANGED <<regWindows, vars, clientVars>>

\* Hardware Test
bios_hardware_test ==
    /\ LET r == gui_hardware_test(bios)
       IN  /\ bios' = r.gui
           /\ biosEvent' = BiosEvent("hardware_test", "", r, <<>>, -1)
    /\ UNCHANGED <<regWindows, vars, clientVars>>

\* Reset Hardware
bios_reset_hardware ==
    /\ LET r == gui_reset_hardware(bios)
       IN  /\ bios' = r.gui
           /\ biosEvent' = BiosEvent("reset_hardware", "", r, <<>>, -1)
    /\ UNCHANGED <<regWindows, vars, clientVars>>

\* Open ROM, the user ready to pick path
bios_open_rom(path) ==
    /\ LET r == gui_open_rom(bios, path)
       IN  /\ bios' = r.gui
           /\ biosEvent' = BiosEvent("open_rom", IF r.asked THEN path ELSE "", r, <<>>, -1)
    /\ UNCHANGED <<regWindows, vars, clientVars>>

\* Check Hardware Status: a message box, no assignment
bios_show_hardware_status ==
    /\ biosEvent' = BiosEvent("show_hardware_status", "",
                              GuiOut(bios, "None", "info", FALSE), <<>>, -1)
    /\ UNCHANGED <<bios, regWindows, vars, clientVars>>

\* View Hardware Registers: one more window
bios_show_registers ==
    /\ regWindows < MaxRegWindows
    /\ regWindows' = regWindows + 1
    /\ biosEvent' = BiosEvent("show_registers", "",
                              GuiOut(bios, "None", "", FALSE), <<>>, -1)
    /\ UNCHANGED <<bios, vars, clientVars>>

BiosNext ==
    \/ bios_run_bios
    \/ bios_hardware_test
    \/ bios_reset_hardware
    \/ \E path \in BiosPaths : bios_open_rom(path)
    \/ bios_show_hardware_status
    \/ bios_show_registers

BiosSpec == Init /\ [][BiosNext]_allVars

\* ------------------------------------------------------------ client frontend
ClientEvent(op, path, raised) == [op |-> op, path |-> path, raised |-> raised]

client_open_rom(path, there) ==
    /\ LET r == client_open(client, path, there)
       IN  /\ client' = r.gui
           /\ clientEvent' = ClientEvent("open_rom", path, r.raised)
    /\ UNCHANGED <<vars, biosVars>>

client_close_rom ==
    /\ client' = client_close(client)
    /\ clientEvent' = ClientEvent("close_rom", "", "None")
    /\ UNCHANGED <<vars, biosVars>>

client_play_emu ==
    /\ client' = client_play(client)
    /\ clientEvent' = ClientEvent("play_emu", "", "None")
    /\ UNCHANGED <<vars, biosVars>>

client_pause_emu ==
    /\ client' = client_pause(client)
    /\ clientEvent' = ClientEvent("pause_emu", "", "None")
    /\ UNCHANGED <<vars, biosVars>>

client_reset_emu ==
    /\ client' = client_reset(client)
    /\ clientEvent' = ClientEvent("reset_emu", "", "None")
    /\ UNCHANGED <<vars, biosVars>>

client_quick_save ==
    /\ client' = client_note(client, "Quick save to slot 1")
    /\ clientEvent' = ClientEvent("quick_save", "", "None")
    /\ UNCHANGED <<vars, biosVars>>

client_quick_load ==
    /\ client' = client_note(client, "Quick load from slot 1")
    /\ clientEvent' = ClientEvent("quick_load", "", "None")
    /\ UNCHANGED <<vars, biosVars>>

client_take_screenshot ==
    /\ client' = client_note(client, "Screenshot saved")
    /\ clientEvent' = ClientEvent("take_screenshot", "", "None")
    /\ UNCHANGED <<vars, biosVars>>

ClientNext ==
    \/ \E path \in ClientPaths, there \in BOOLEAN : client_open_rom(path, there)
    \/ client_close_rom
    \/ client_play_emu
    \/ client_pause_emu
    \/ client_reset_emu
    \/ client_quick_save
    \/ client_quick_load
    \/ client_take_screenshot

ClientSpec == Init /\ [][ClientNext]_allVars

\* ------------------------------------------------------------ observations
\* The step just taken was open_rom on path p.
Opened(p) == loads' = loads + 1 /\ event'.op = "open_rom" /\ event'.path = p

\* The step just taken was a press of Step or of Run 20 instr.
Stepped == cpuOps' = cpuOps + 1 /\ event'.op \in {"step", "run20"}

\* The header of data carries the magic and both size bytes.
HasHeader(data) == Len(data) >= 6 /\ SubSeq(data, 1, 4) = <<78, 69, 83, 26>>

\* Header byte 4 and the payload bytes that follow the 16-byte header.
Banks(data) == data[5]
Payload(data) == IF Len(data) > 16 THEN SubSeq(data, 17, Len(data)) ELSE <<>>

\* The byte of bus mem at address a.
At(mem, a) == mem[(a \div 256) + 1][(a % 256) + 1]

\* The address (hi << 8) | lo held by the reset vector of bus mem.
VectorOf(mem) == At(mem, 65533) * 256 + At(mem, 65532)

\* ------------------------------------------------------------ C1
\* C1: a load of a file whose first four bytes are not 'N','E','S',0x1A fails
\* with ValueError("Not a valid iNES ROM"), writes no byte of the bus and does
\* not reset the CPU: bus and registers are what they were before the call.
C1_InvalidFormatLeavesBus ==
    [][\A p \in Paths :
          (Opened(p) /\ SubSeq(Files[p], 1, Min(4, Len(Files[p]))) # <<78, 69, 83, 26>>)
          => /\ event'.load.raised = "ValueError"
             /\ event'.load.prg = 0 /\ event'.load.mirror = 0 /\ ~event'.load.patched
             /\ memory' = memory
             /\ cpu' = cpu]_vars

\* A bad-magic file was refused on a bus that an earlier load had filled.
C1_Witness ==
    /\ event.op = "open_rom" /\ event.path = "bad.nes"
    /\ event.load.raised = "ValueError"
    /\ At(memory, 32768) = 169 /\ cpu.PC = 32768

\* ------------------------------------------------------------ C2
\* C2 (as claimed): after the load of a valid image with n >= 1 banks, bus
\* addresses 0x8000 .. 0x8000+16384n-1 hold the PRG bytes, and the loader used no
\* bus address outside 0..65535.
C2_AllBanksMapped ==
    (event.op = "open_rom" /\ HasHeader(Files[event.path])
        /\ Banks(Files[event.path]) >= 1
        /\ Len(Payload(Files[event.path])) >= 16384 * Banks(Files[event.path]))
    => LET data == Files[event.path]
           n    == Banks(data)
       IN  /\ event.load.oob = -1
           /\ 32768 + 16384 * n <= 65536
           /\ \A i \in 0..(16384 * n - 1) : At(memory, 32768 + i) = data[17 + i]

\* ------------------------------------------------------------ C3
\* C3 (as claimed): a load whose declared PRG size exceeds the bytes that follow
\* the header fails (with whatever exception stands for TruncatedImage) and
\* leaves the bus as it was.
C3_TruncatedRejected ==
    [][\A p \in Paths :
          (Opened(p) /\ HasHeader(Files[p])
             /\ 16384 * Banks(Files[p]) > Len(Payload(Files[p])))
          => (event'.load.raised # "None" /\ memory' = memory)]_vars

\* ------------------------------------------------------------ C4
\* C4 (as claimed): after the load of an image with PRG bank count 1,
\* bus[0xC000+i] = bus[0x8000+i] for all i in 0..16383.
C4_MirrorEverywhere ==
    (event.op = "open_rom" /\ HasHeader(Files[event.path])
        /\ Banks(Files[event.path]) = 1)
    => \A i \in 0..16383 : At(memory, 49152 + i) = At(memory, 32768 + i)

\* C4 (amended): after the load of an image with PRG bank count 1 that holds k
\* payload bytes (k capped at 16384), bus[0xC000+i] = bus[0x8000+i] = payload[i]
\* for every i < k, except that bus[0xFFFD] is 0x80 when the fallback vector was
\* patched in; all 16384 cells are mirrored when the load returns.  For a bank
\* count other than 1 the mirror loop writes nothing.
C4_MirrorButVector ==
    (event.op = "open_rom" /\ HasHeader(Files[event.path]))
    => LET data == Files[event.path]
           k    == Min(Len(Payload(data)), 16384)
       IN  IF Banks(data) = 1
           THEN /\ event.load.mirror = k
                /\ event.load.raised = "None" <=> k = 16384
                /\ \A i \in 0..(k - 1) :
                      /\ At(memory, 32768 + i) = data[17 + i]
                      /\ IF event.load.patched /\ i = 16381
                         THEN At(memory, 49152 + i) = 128
                         ELSE At(memory, 49152 + i) = At(memory, 32768 + i)
           ELSE event.load.mirror = 0

\* A one-bank image without a vector was loaded over a two-bank one: the upper
\* window holds the mirror, but for the patched vector byte.
C4_Witness ==
    /\ event.op = "open_rom" /\ event.path = "one.nes" /\ loads = 2
    /\ event.load.mirror = 16384 /\ event.load.patched
    /\ At(memory, 49152) = 169 /\ At(memory, 49153) = 66
    /\ At(memory, 65533) = 128 /\ At(memory, 49149) = 0

\* ------------------------------------------------------------ C5
\* The byte that the copy and mirror loops leave at bus address a (>= 0x8000)
\* when data is loaded over bus mem and the load returns.
MappedAt(data, mem, a) ==
    LET prg == Payload(data)
        n   == Banks(data)
    IN  IF n = 1 /\ a >= 49152 THEN prg[a - 49152 + 1]
        ELSE IF a - 32768 < Min(Len(prg), 16384 * n) THEN prg[a - 32768 + 1]
        ELSE At(mem, a)

\* C5: when a load returns, the vector bytes are 0x00, 0x80 if mapping and
\* mirroring left both 0xFFFC and 0xFFFD zero, and otherwise exactly what
\* mapping and mirroring left there; a load that raises patches nothing.
C5_VectorFallback ==
    [][\A p \in Paths :
          Opened(p) =>
             IF event'.load.raised = "None"
             THEN LET lo == MappedAt(Files[p], memory, 65532)
                      hi == MappedAt(Files[p], memory, 65533)
                  IN  IF lo = 0 /\ hi = 0
                      THEN /\ event'.load.patched
                           /\ At(memory', 65532) = 0 /\ At(memory', 65533) = 128
                      ELSE /\ ~event'.load.patched
                           /\ At(memory', 65532) = lo /\ At(memory', 65533) = hi
             ELSE ~event'.load.patched]_vars

\* A one-bank image without a vector was loaded and got the fallback vector.
C5_Witness ==
    /\ event.op = "open_rom" /\ event.path = "one.nes"
    /\ event.load.raised = "None" /\ event.load.patched
    /\ At(memory, 65532) = 0 /\ At(memory, 65533) = 128
    /\ At(memory, 49148) = 0 /\ At(memory, 49149) = 0

\* ------------------------------------------------------------ C6
\* The CPU was reset by the handler that ran last (the Reset button, or a load
\* that returned) and has not stepped since.
JustReset ==
    \/ event.op = "reset"
    \/ event.op = "open_rom" /\ event.load.raised = "None"

\* C6: reset() sets PC to (bus[0xFFFD] << 8) | bus[0xFFFC] and touches no other
\* register, and the step() that follows a reset fetches its opcode from exactly
\* that address.
C6_ResetVector ==
    [][/\ (cpuOps' = cpuOps + 1 /\ event'.op = "reset")
              => cpu' = [cpu EXCEPT !.PC = VectorOf(memory)]
       /\ (\E p \in Paths : Opened(p) /\ event'.load.raised = "None")
              => cpu' = [cpu EXCEPT !.PC = VectorOf(memory')]
       /\ (JustReset /\ Stepped)
              => /\ cpu.PC = VectorOf(memory)
                 /\ event'.steps[1].reads[1] = VectorOf(memory)
                 /\ event'.steps[1].opcode = At(memory, VectorOf(memory))]_vars

\* Reset was pressed on the bus of two.nes (vector 0xC000) and the next Step
\* fetched the E8 stored at 0xC000.
C6_Witness ==
    /\ event.op = "step" /\ loads = 1 /\ cpuOps = 2
    /\ VectorOf(memory) = 49152
    /\ event.steps[1].reads = <<49152>> /\ event.steps[1].opcode = 232
    /\ cpu.PC = 49153

\* ------------------------------------------------------------ C7
\* C7 (as claimed): PC is held modulo 65536: 0 <= PC <= 65535 in every state.
C7_PCInRange == cpu.PC >= 0 /\ cpu.PC <= 65535

\* ------------------------------------------------------------ C8
\* C8 (as claimed): every step() returns (Continued, Stopped or UnknownOpcode)
\* without raising, and every bus address it reads lies in 0..65535.
C8_StepTotal ==
    \A i \in DOMAIN event.steps :
        /\ event.steps[i].ret \in {"True", "False"}
        /\ \A j \in DOMAIN event.steps[i].reads :
              event.steps[i].reads[j] >= 0 /\ event.steps[i].reads[j] <= 65535

\* ------------------------------------------------------------ C9
\* The step s fetched a byte that is none of A9, A2, E8, 00.
FetchedUnknown(s) == s.opcode # -1 /\ s.opcode \notin {169, 162, 232, 0}

\* C9 (as claimed): a step that fetches an unknown opcode reports it and leaves
\* A, X, Y, SP, PC and the flags as they were before the call.
C9_UnknownLeavesAll ==
    \A i \in DOMAIN event.steps :
        FetchedUnknown(event.steps[i])
        => /\ event.steps[i].ret = "False" /\ event.steps[i].unknown
           /\ event.steps[i].cpu = event.steps[i].before

\* C9 (amended): a step that fetches an unknown opcode returns False after
\* printing the opcode, and leaves A, X, Y, SP and the flags as they were; PC is
\* one more than before the call (the opcode fetch has advanced it).
C9_UnknownLeavesAllButPC ==
    \A i \in DOMAIN event.steps :
        FetchedUnknown(event.steps[i])
        => /\ event.steps[i].ret = "False" /\ event.steps[i].unknown
           /\ event.steps[i].reads = <<event.steps[i].before.PC>>
           /\ event.steps[i].cpu =
                 [event.steps[i].before EXCEPT !.PC = event.steps[i].before.PC + 1]

\* Run 20 on one.nes, past its BRK, ran into the FF at 0x8009 with X = 1.
C9_Witness ==
    /\ event.op = "run20" /\ Len(event.steps) = 5
    /\ event.steps[5].opcode = 255 /\ event.steps[5].unknown
    /\ event.steps[5].before.PC = 32777 /\ event.steps[5].before.X = 1
    /\ cpu.PC = 32778 /\ cpu.X = 1 /\ cpu.A = 66

\* ------------------------------------------------------------ C10
\* The handler that ran last was a Step or Run 20 whose last step() reported
\* Stopped or UnknownOpcode: the CPU of the claim is Halted.
JustHalted ==
    /\ event.op \in {"step", "run20"}
    /\ event.steps[Len(event.steps)].ret = "False"

\* No handler has run yet: the CPU of the claim is Idle.
NeverReset == event.op = "none"

\* C10 (as claimed): a Step or Run 20 pressed while the CPU is Halted, or before
\* any reset, fetches no opcode and changes no register.
C10_NoStepUnlessRunning ==
    [][((JustHalted \/ NeverReset) /\ Stepped)
          => /\ cpu' = cpu
             /\ \A i \in DOMAIN event'.steps : event'.steps[i].reads = <<>>]_vars

\* ------------------------------------------------------------ C11
\* C11: a step() that fetches opcode 0x00 reads the bus at PC only (no operand),
\* leaves PC one more than before the call, returns False (Stopped), and leaves
\* A, X, Y, SP and every flag as they were; the handler that made the call
\* leaves the bus as it was.
C11_BrkStopsOnly ==
    [][Stepped =>
          /\ memory' = memory
          /\ \A i \in DOMAIN event'.steps :
                event'.steps[i].opcode = 0
                => /\ event'.steps[i].ret = "False" /\ ~event'.steps[i].unknown
                   /\ event'.steps[i].reads = <<event'.steps[i].before.PC>>
                   /\ event'.steps[i].cpu =
                         [event'.steps[i].before EXCEPT
                             !.PC = event'.steps[i].before.PC + 1]
                   /\ i = Len(event'.steps)
                   /\ cpu' = event'.steps[i].cpu]_vars

\* Step was pressed twice on one.nes: LDA #$42, then the BRK at 0x8002.
C11_Witness ==
    /\ event.op = "step" /\ cpuOps = 2
    /\ event.steps[1].opcode = 0 /\ event.steps[1].before.PC = 32770
    /\ event.steps[1].ret = "False"
    /\ cpu.PC = 32771 /\ cpu.A = 66 /\ cpu.flags.B = 0
    /\ At(memory, 32770) = 0 /\ At(memory, 32768) = 169

\* ------------------------------------------------------------ C12
\* C12 (as claimed): a step() that fetches opcode 0xA9 at PC = p returns True
\* (Continued) with A = v, the operand byte that follows the opcode, PC = (p+2)
\* mod 65536, Z = 1 iff v = 0, N = 1 iff bit 7 of v is set, and X as it was.
C12_LdaImmediate ==
    \A i \in DOMAIN event.steps :
        event.steps[i].opcode = 169
        => LET p == event.steps[i].before.PC
               v == At(memory, (p + 1) % 65536)
           IN  /\ event.steps[i].ret = "True"
               /\ event.steps[i].cpu.A = v
               /\ event.steps[i].cpu.PC = (p + 2) % 65536
               /\ event.steps[i].cpu.flags.Z = 1 <=> v = 0
               /\ event.steps[i].cpu.flags.N = 1 <=> (v \div 128) % 2 = 1
               /\ event.steps[i].cpu.X = event.steps[i].before.X

\* ------------------------------------------------------------ C13
\* C13 (as claimed): a step() that fetches opcode 0xA2 at PC = p returns True
\* (Continued) with X = v, the operand byte that follows the opcode, PC = (p+2)
\* mod 65536, Z = 1 iff v = 0, N = 1 iff bit 7 of v is set, and A as it was.
C13_LdxImmediate ==
    \A i \in DOMAIN event.steps :
        event.steps[i].opcode = 162
        => LET p == event.steps[i].before.PC
               v == At(memory, (p + 1) % 65536)
           IN  /\ event.steps[i].ret = "True"
               /\ event.steps[i].cpu.X = v
               /\ event.steps[i].cpu.PC = (p + 2) % 65536
               /\ event.steps[i].cpu.flags.Z = 1 <=> v = 0
               /\ event.steps[i].cpu.flags.N = 1 <=> (v \div 128) % 2 = 1
               /\ event.steps[i].cpu.A = event.steps[i].before.A

\* ------------------------------------------------------------ C14
\* C14: a step() that fetches opcode 0xE8 with X = x returns True with
\* X = (x+1) mod 256, reads the bus at PC only, leaves PC one more than before,
\* and sets Z = 1 iff the new X is 0 and N = 1 iff bit 7 of the new X is set
\* (x = 0xFF gives X = 0, Z = 1, N = 0); A, Y, SP and the other flags stay.
C14_InxWraps ==
    \A i \in DOMAIN event.steps :
        event.steps[i].opcode = 232
        => LET x == event.steps[i].before.X
               r == (x + 1) % 256
           IN  /\ event.steps[i].ret = "True"
               /\ event.steps[i].reads = <<event.steps[i].before.PC>>
               /\ event.steps[i].cpu =
                     [event.steps[i].before EXCEPT
                         !.X = r,
                         !.PC = event.steps[i].before.PC + 1,
                         !.flags.Z = IF r = 0 THEN 1 ELSE 0,
                         !.flags.N = IF r >= 128 THEN 1 ELSE 0]
               /\ (x = 255) => /\ event.steps[i].cpu.X = 0
                               /\ event.steps[i].cpu.flags.Z = 1
                               /\ event.steps[i].cpu.flags.N = 0

\* Run 20 on one.nes after its BRK: LDX #$80, LDX #$FF, then INX took X from
\* 0xFF to 0 with Z = 1, N = 0.
C14_Witness ==
    /\ event.op = "run20" /\ Len(event.steps) >= 3
    /\ event.steps[3].opcode = 232 /\ event.steps[3].before.X = 255
    /\ event.steps[3].before.flags.N = 1 /\ event.steps[3].before.flags.Z = 0
    /\ event.steps[3].cpu.X = 0
    /\ event.steps[3].cpu.flags.Z = 1 /\ event.steps[3].cpu.flags.N = 0
    /\ event.steps[3].cpu.PC = event.steps[3].before.PC + 1

\* ------------------------------------------------------------ C15
\* The step s returned True from the LDA, LDX or INX arm: it produced a value.
ProducedValue(s) == s.ret = "True" /\ s.opcode \in {169, 162, 232}

\* The value that s produced on bus mem: the operand byte of LDA and LDX, the
\* incremented and masked X of INX.
ResultOf(s, mem) ==
    IF s.opcode = 232 THEN (s.before.X + 1) % 256 ELSE At(mem, s.before.PC + 1)

\* C15: every step() that produces a value (LDA, LDX, INX) leaves Z = 1 iff that
\* value is 0 and N = 1 iff its bit 7 is set; every other step() (BRK, unknown
\* opcode, a raise) and every reset() (the Reset button, the reset of a load)
\* leaves Z and N as they were.  Each step() starts from the registers the
\* previous one left, so Z and N always describe the most recent value produced.
C15_FlagsFollowLastValue ==
    [][/\ Stepped =>
            /\ event'.steps[1].before = cpu
            /\ cpu' = event'.steps[Len(event'.steps)].cpu
            /\ \A i \in DOMAIN event'.steps :
                 LET s == event'.steps[i]
                 IN  /\ i > 1 => s.before = event'.steps[i - 1].cpu
                     /\ IF ProducedValue(s)
                        THEN /\ s.cpu.flags.Z = 1 <=> ResultOf(s, memory) = 0
                             /\ s.cpu.flags.N = 1 <=> ResultOf(s, memory) >= 128
                             /\ s.cpu.flags.Z \in {0, 1} /\ s.cpu.flags.N \in {0, 1}
                        ELSE /\ s.cpu.flags.Z = s.before.flags.Z
                             /\ s.cpu.flags.N = s.before.flags.N
       /\ ~Stepped => (cpu'.flags.Z = cpu.flags.Z /\ cpu'.flags.N = cpu.flags.N)]_vars

\* LDX #$80 had set N on one.nes; the load of zero.nes that followed reset the
\* CPU to 0x8000 and N is still 1.
C15_Witness ==
    /\ event.op = "open_rom" /\ event.path = "zero.nes" /\ event.load.raised = "None"
    /\ cpuOps = 2 /\ loads = 2
    /\ cpu.X = 128 /\ cpu.A = 66 /\ cpu.flags.N = 1 /\ cpu.flags.Z = 0
    /\ cpu.PC = 32768

\* ------------------------------------------------------------ C16
\* Every cell of bus mem is zero.
ZeroBus(mem) == At(mem, 32768) = 0 /\ \A a \in 0..65535 : At(mem, a) = 0

\* Bus mem is what the load of a header-only image leaves of a zero bus: zero
\* everywhere but for the high byte of the fallback vector.
ZeroImageBus(mem) ==
    /\ At(mem, 65533) = 128 /\ At(mem, 32768) = 0
    /\ \A a \in 0..65535 : At(mem, a) = IF a = 65533 THEN 128 ELSE 0

\* C16 (Scenario A): the load of an image that is a header with the magic and
\* PRG bank count 0, with no payload, onto a bus of zeros returns 0 having
\* mapped nothing; the reset of that load, and a Reset pressed after it, set PC
\* to 0x8000; the step() that follows reads opcode 0x00 at 0x8000 and returns
\* False (Stopped).
C16_ScenarioA ==
    [][/\ (Opened("zero.nes") /\ ZeroBus(memory))
            => /\ event'.load.raised = "None" /\ event'.load.ret = 0
               /\ event'.load.prg = 0 /\ event'.load.mirror = 0
               /\ ZeroImageBus(memory')
               /\ cpu'.PC = 32768
       /\ (cpuOps' = cpuOps + 1 /\ event'.op = "reset" /\ ZeroImageBus(memory))
            => cpu'.PC = 32768
       /\ (JustReset /\ Stepped /\ ZeroImageBus(memory))
            => /\ event'.steps[1].reads = <<32768>>
               /\ event'.steps[1].opcode = 0
               /\ event'.steps[1].ret = "False"
               /\ Len(event'.steps) = 1]_vars

\* zero.nes was loaded on the fresh bus, Reset was pressed and the Step after it
\* stopped on the 0x00 at 0x8000.
C16_Witness ==
    /\ event.op = "step" /\ loads = 1 /\ cpuOps = 2
    /\ ZeroImageBus(memory)
    /\ event.steps[1].before.PC = 32768 /\ event.steps[1].opcode = 0
    /\ event.steps[1].ret = "False"
    /\ cpu.PC = 32769

\* ------------------------------------------------------------ C17
\* C17: a reset() called when the last thing done to the CPU and the bus was a
\* reset() (the Reset button, or the reset that ends a load) leaves every
\* register and every flag as the first reset() left them.
C17_ResetIdempotent ==
    [][(JustReset /\ cpuOps' = cpuOps + 1 /\ event'.op = "reset")
          => (cpu' = cpu /\ memory' = memory)]_vars

\* Reset was pressed twice on the bus of two.nes: PC is the vector 0xC000 and
\* the registers are those of a CPU that has not stepped.
C17_Witness ==
    /\ event.op = "reset" /\ cpuOps = 2 /\ loads = 1
    /\ VectorOf(memory) = 49152 /\ At(memory, 49152) = 232
    /\ cpu.PC = 49152 /\ cpu.X = 0 /\ cpu.A = 0 /\ cpu.SP = 253

\* ------------------------------------------------------------ C18
\* C18 (as claimed): the value returned by a load equals 16384 x header byte 4
\* and equals the number of consecutive bus cells from 0x8000 on that were
\* written from the PRG payload.
C18_ReturnsMappedLength ==
    (event.op = "open_rom" /\ event.load.raised = "None")
    => LET data == Files[event.path]
       IN  /\ event.load.ret = 16384 * Banks(data)
           /\ event.load.ret = event.load.prg
           /\ \A i \in 0..(event.load.ret - 1) : At(memory, 32768 + i) = data[17 + i]

\* ------------------------------------------------------------ C19
\* C19: in every state A, X, Y and SP are in 0..255, in the CPU and in the
\* registers every step() started from and ended with; before any handler has
\* run, SP = 0xFD and A = X = Y = 0.
C19_ByteRegisters ==
    /\ \A r \in {"A", "X", "Y", "SP"} :
          /\ cpu[r] \in 0..255
          /\ \A i \in DOMAIN event.steps :
                event.steps[i].before[r] \in 0..255 /\ event.steps[i].cpu[r] \in 0..255
    /\ event.op = "none"
          => (cpu.SP = 253 /\ cpu.A = 0 /\ cpu.X = 0 /\ cpu.Y = 0)

\* A run on one.nes loaded X with 0xFF and incremented it twice: X went through
\* 0 and is 1, A holds the 0x42 of the run before, SP is still 0xFD.
C19_Witness ==
    /\ event.op = "run20"
    /\ \E i \in DOMAIN event.steps :
          event.steps[i].before.X = 255 /\ event.steps[i].cpu.X = 0
    /\ cpu.X = 1 /\ cpu.A = 66 /\ cpu.Y = 0 /\ cpu.SP = 253

\* ------------------------------------------------------------ C20
\* C20: a press of Run 20 instr makes at least 1 and at most 20 calls of step(),
\* each starting from the registers the one before it left; every call but the
\* last returned True, and a run of fewer than 20 calls ended on a call that
\* did not return True (Stopped, UnknownOpcode, or a raise): no step() follows
\* the halting one in the same run, and the run ends.
C20_RunStopsAtHalt ==
    event.op = "run20"
    => /\ Len(event.steps) >= 1 /\ Len(event.steps) <= 20
       /\ \A i \in 1..(Len(event.steps) - 1) :
             /\ event.steps[i].ret = "True"
             /\ event.steps[i + 1].before = event.steps[i].cpu
       /\ Len(event.steps) < 20 => event.steps[Len(event.steps)].ret # "True"
       /\ cpu = event.steps[Len(event.steps)].cpu

\* Run 20 was pressed twice on two.nes: the first run made its 20 calls on the
\* sled at 0xC000, the second made three, INX, INX and the BRK at 0xC016.
C20_Witness ==
    /\ event.op = "run20" /\ cpuOps = 2
    /\ Len(event.steps) = 3
    /\ event.steps[1].before.PC = 49172 /\ event.steps[1].before.X = 20
    /\ event.steps[3].opcode = 0 /\ event.steps[3].ret = "False"
    /\ cpu.X = 22 /\ cpu.PC = 49175

\* ------------------------------------------------------------ C21
\* The registers and flags that no modelled opcode and no reset() assigns.
SameUntouched(c, d) ==
    /\ c.Y = d.Y /\ c.SP = d.SP
    /\ \A f \in {"C", "I", "D", "B", "U", "V"} : c.flags[f] = d.flags[f]

\* C21: in every state U = 1, every flag is 0 or 1, Y = 0 and SP = 0xFD; a press
\* of Step, Run 20 instr or Reset leaves the bus as it was, and leaves Y, SP and
\* the flags C, I, D, B, U, V as they were, call by call of step().
C21_StepFrame ==
    /\ [](/\ cpu.flags.U = 1 /\ cpu.Y = 0 /\ cpu.SP = 253
          /\ \A f \in {"C", "Z", "I", "D", "B", "U", "V", "N"} : cpu.flags[f] \in {0, 1})
    /\ [][cpuOps' = cpuOps + 1 =>
             /\ memory' = memory
             /\ SameUntouched(cpu', cpu)
             /\ \A i \in DOMAIN event'.steps :
                   SameUntouched(event'.steps[i].cpu, event'.steps[i].before)]_vars

\* Step was pressed on one.nes after a run: LDX #$80 set X and N, and Y, SP and
\* the other flags are those of creation.
C21_Witness ==
    /\ event.op = "step" /\ cpuOps = 2
    /\ event.steps[1].opcode = 162 /\ event.steps[1].ret = "True"
    /\ cpu.X = 128 /\ cpu.flags.N = 1 /\ cpu.flags.Z = 0
    /\ cpu.Y = 0 /\ cpu.SP = 253 /\ cpu.flags.U = 1 /\ cpu.flags.B = 0
    /\ At(memory, 32771) = 162

\* ------------------------------------------------------------ C22
\* How many cells from 0x8000 on the PRG copy of data writes (as if the bus had
\* no end), and how many cells from 0xC000 on its one-bank mirror writes.
CopyCells(data) ==
    IF HasHeader(data)
    THEN Min(IF Len(data) > 16 THEN Len(data) - 16 ELSE 0, 16384 * Banks(data))
    ELSE 0
MirrorCells(data) == IF HasHeader(data) /\ Banks(data) = 1 THEN CopyCells(data) ELSE 0

\* Address a (>= 0x8000) is one that a load writes: one of the k cells of the PRG
\* copy, one of the m cells of the mirror, or, when the load patched the
\* fallback vector in, one of the two vector cells.
CoveredByLoad(k, m, patched, a) ==
    \/ a - 32768 < k
    \/ a >= 49152 /\ a - 49152 < m
    \/ patched /\ a \in {65532, 65533}

\* No address of the 256-cell page pg (128..255) is written by the load.
PageFree(k, m, patched, pg) ==
    /\ pg * 256 - 32768 >= k
    /\ pg * 256 + 255 < 49152 \/ pg * 256 - 49152 >= m
    /\ ~(patched /\ pg = 255)

\* Every address of the 256-cell page pg (128..255) is written by the PRG copy,
\* or every one by the mirror.
PageFull(k, m, pg) ==
    \/ pg * 256 + 255 - 32768 < k
    \/ pg * 256 >= 49152 /\ pg * 256 + 255 - 49152 < m

\* C22: a load leaves bus addresses 0x0000..0x7FFF as they were, and leaves every
\* address of 0x8000..0xFFFF that is not written by its PRG copy, its mirror or
\* its vector patch as the bus held it before (nothing is cleared); of the CPU
\* only PC changes, by the reset() that open_rom calls after a load that
\* returned.
C22_LoadFrame ==
    [][\A p \in Paths :
          Opened(p) =>
             LET k  == CopyCells(Files[p])
                 m  == MirrorCells(Files[p])
                 pa == event'.load.patched
             IN  /\ \A pg \in 0..127 : memory'[pg + 1] = memory[pg + 1]
                 /\ \A pg \in 128..255 :
                       IF PageFree(k, m, pa, pg)
                       THEN memory'[pg + 1] = memory[pg + 1]
                       ELSE PageFull(k, m, pg) \/ \A a \in (pg * 256)..(pg * 256 + 255) :
                               CoveredByLoad(k, m, pa, a)
                               \/ At(memory', a) = At(memory, a)
                 /\ cpu' = [cpu EXCEPT !.PC = cpu'.PC]
                 /\ event'.load.raised # "None" => cpu' = cpu]_vars

\* trunc2.nes was loaded over two.nes: its 16386 bytes lie from 0x8000 to 0xC001,
\* and from 0xC002 on the bus still holds the sled and the vector of two.nes.
C22_Witness ==
    /\ event.op = "open_rom" /\ event.path = "trunc2.nes" /\ loads = 2
    /\ At(memory, 32768) = 169 /\ At(memory, 49153) = 5
    /\ At(memory, 49154) = 232 /\ At(memory, 49174) = 0 /\ At(memory, 49175) = 3
    /\ At(memory, 65532) = 0 /\ At(memory, 65533) = 192
    /\ cpu.PC = 49152

\* ------------------------------------------------------------ C23
\* C23 (as claimed): a call of NESHardware.run_bios returns after the five
\* initialisations memory, CPU, PPU, APU, controllers, in that order; the six
\* flags are then true, the RAM holds the reset vector 0x00, 0xC0 at 0x1FFC and
\* 0x1FFD, and no index used on the 2048-cell RAM was past its end.
C23_BiosCompletes ==
    biosEvent.op = "run_bios"
    => /\ biosEvent.raised = "None"
       /\ biosEvent.oob = -1
       /\ biosEvent.stages = <<"memory", "cpu", "ppu", "apu", "controllers">>
       /\ bios.nes.memory_initialized /\ bios.nes.cpu_initialized
       /\ bios.nes.ppu_initialized /\ bios.nes.apu_initialized
       /\ bios.nes.controllers_initialized /\ bios.nes.bios_complete
       /\ Len(bios.nes.ram) = 2048
       /\ Len(bios.nes.ram) > 8189
       /\ bios.nes.ram[8189] = 0 /\ bios.nes.ram[8190] = 192

\* ------------------------------------------------------------ C24
\* C24: in the frontend of client.py, whatever sequence of open_rom,
\* close_rom, play_emu, pause_emu and reset_emu (and the status-line
\* handlers) has run, is_playing implies rom_loaded, rom_loaded holds exactly
\* when rom_path is set (not None), and a play_emu or reset_emu invoked with
\* no ROM loaded leaves every field of the frontend as it was.
C24_PlayingNeedsRom ==
    /\ [](/\ client.is_playing => client.rom_loaded
          /\ client.rom_loaded <=> client.rom_path # "None")
    /\ [][(clientEvent'.op \in {"play_emu", "reset_emu"} /\ ~client.rom_loaded)
            => client' = client]_allVars

\* A ROM was opened and played (the FPS label still reads 60), closed while
\* playing, and reset_emu was then invoked with no ROM loaded.
C24_Witness ==
    /\ clientEvent.op = "reset_emu"
    /\ ~client.rom_loaded /\ ~client.is_playing /\ client.rom_path = "None"
    /\ client.fps_label = "60"
    /\ client.status_text = "ROM closed"

\* ------------------------------------------------------------ C25
\* C25: in the BIOS GUI, open_rom and hardware_test are gated on BIOS
\* completion: invoked while nes.bios_complete is false neither changes any
\* field of the GUI or of the hardware; rom_loaded and rom_path change only
\* in an open_rom invoked while nes.bios_complete is true; and once the user
\* has run the BIOS initialization, open_rom passes the gate (the file dialog
\* is offered and the path picked there is loaded).
C25_RomAfterBios ==
    [][/\ (biosEvent'.op \in {"open_rom", "hardware_test"} /\ ~bios.nes.bios_complete)
            => bios' = bios
       /\ (bios'.rom_loaded # bios.rom_loaded \/ bios'.rom_path # bios.rom_path)
            => (biosEvent'.op = "open_rom" /\ bios.nes.bios_complete)
       /\ (biosEvent.op = "run_bios" /\ biosEvent'.op = "open_rom")
            => /\ biosEvent'.asked
               /\ biosEvent'.path # "" => (bios'.rom_loaded /\ bios'.rom_path = biosEvent'.path)]_allVars

====
